---- MODULE Spec2Model ----
(***************************************************************************)
(* Semantic response cache of the chat front end.                          *)
(*                                                                         *)
(*   database.py : the Durable Store (table `queries`, upsert, full scan)  *)
(*   chat.py     : the Volatile Vector Index (faiss.IndexFlatIP), the      *)
(*                 Response Cache Map (dict), lookup and record            *)
(*   app.py      : the request flow of the modular program                 *)
(*   all-code.py : the single-file variant of the same program             *)
(*                                                                         *)
(* Vectors are integer 5-tuples of squared length 20, so an inner product  *)
(* of the model is 20 times the inner product of the unit vectors the      *)
(* embedding provider returns: 0.75 is 15 and 0.6 is 12 in model units.    *)
(***************************************************************************)
EXTENDS Integers, Sequences, FiniteSets, TLC

VARIABLES db, index, cache, last, callers

vars == <<db, index, cache, last, callers>>

(***************************************************************************)
(* Bounds of the model.                                                    *)
(***************************************************************************)
MaxIndex == 3
MaxUsage == 2

(***************************************************************************)
(* Inputs: query texts and response texts.                                 *)
(***************************************************************************)
Texts == {"t0", "t1", "t2", "t3"}
Responses == {"A", "B"}

\* Python's None: a miss of get_cached_response, an absent key of dict.get.
None == "<None>"

\* chat.py:33 `similarities[0][i] > 0.75`, in model units (0.75 * 20).
T_high == 15
\* chat.py:42 `similarity > 0.6`, in model units (0.6 * 20).
T_low == 12
\* chat.py:29 `index.search(query_vector, k=5)`.
K == 5

(***************************************************************************)
(* The embedding provider: a deterministic map from text to vector.        *)
(*   t0.t1 = 18 (0.90)  t0.t2 = 14 (0.70)  t0.t3 = 15 (0.75)               *)
(*   t1.t2 =  8 (0.40)  t1.t3 = 10 (0.50)  t2.t3 = 12 (0.60)               *)
(***************************************************************************)
get_embedding(text) ==
    CASE text = "t0" -> <<0, 1, 1, 3, 3>>
      [] text = "t1" -> <<0, 0, 0, 2, 4>>
      [] text = "t2" -> <<0, 0, 2, 4, 0>>
      [] text = "t3" -> <<1, 3, 0, 3, 1>>

\* np.dot(query_vector, db_embedding.T)[0][0]; IndexFlatIP's metric.
Dot(u, v) == u[1]*v[1] + u[2]*v[2] + u[3]*v[3] + u[4]*v[4] + u[5]*v[5]

\* pickle.dumps / pickle.loads of the embedding array: the BLOB column.
pickle_dumps(v) == [pickled |-> v]
pickle_loads(b) == b.pickled

(***************************************************************************)
(* database.py                                                             *)
(* The table `queries` is a sequence of rows in id (insertion) order.      *)
(***************************************************************************)
RowOf(d, query) ==
    IF \E i \in 1..Len(d) : d[i].query = query
    THEN CHOOSE i \in 1..Len(d) : d[i].query = query
    ELSE 0

\* Mutant: INSERT OR REPLACE, which replaces the whole row on a conflict.
upsert_rows_replace(d, query, embedding, response) ==
    LET i == RowOf(d, query)
        row == [query |-> query, embedding |-> pickle_dumps(embedding),
                response |-> response, usage_count |-> 1]
    IN IF i = 0 THEN Append(d, row) ELSE [d EXCEPT ![i] = row]

\* INSERT ... ON CONFLICT(query) DO UPDATE SET response = excluded.response,
\* usage_count = usage_count + 1
upsert_rows(d, query, embedding, response) ==
    LET i == RowOf(d, query) IN
    IF i = 0
    THEN Append(d, [query |-> query,
                    embedding |-> pickle_dumps(embedding),
                    response |-> response,
                    usage_count |-> 1])
    ELSE [d EXCEPT ![i].response = response,
                   ![i].usage_count = d[i].usage_count + 1]

\* sqlite3 Connection.total_changes of the fresh connection after the
\* statement: rows inserted, updated or deleted. An insert changes one row;
\* the DO UPDATE branch changes one row as well.
total_changes(d, query) ==
    IF RowOf(d, query) = 0 THEN 1 ELSE 1

insert_or_update_query(d, query, embedding, response) ==
    [db  |-> upsert_rows(d, query, embedding, response),
     ret |-> total_changes(d, query) > 0]

\* SELECT * FROM queries ORDER BY id
get_all_queries(d) == d

(***************************************************************************)
(* faiss.IndexFlatIP: handles are 0-based positions; handle h is ix[h+1].  *)
(***************************************************************************)
index_add(ix, v) == Append(ix, v)

ntotal(ix) == Len(ix)

\* A result slot with no neighbour: faiss fills it with label -1 and the
\* lowest similarity.
Pad == [idx |-> -1, sim |-> -1]

RECURSIVE TopK(_, _, _, _)
TopK(ix, v, S, k) ==
    IF k = 0 THEN {<<>>}
    ELSE IF S = {} THEN {<<Pad>> \o t : t \in TopK(ix, v, S, k - 1)}
    ELSE LET best == {h \in S : \A g \in S : Dot(v, ix[h+1]) >= Dot(v, ix[g+1])}
         IN UNION {{<<[idx |-> h, sim |-> Dot(v, ix[h+1])]>> \o t :
                        t \in TopK(ix, v, S \ {h}, k - 1)} : h \in best}

\* index.search(v, k): the k nearest entries by descending inner product.
\* The order among entries of equal similarity is not specified by faiss:
\* every order the library may produce is a result.
index_search(ix, v, k) == TopK(ix, v, 0..(Len(ix) - 1), k)

(***************************************************************************)
(* The Response Cache Map: a dict from handle to response.                 *)
(***************************************************************************)
EmptyCache == [h \in {} |-> None]

cache_set(ca, h, r) ==
    [g \in (DOMAIN ca) \cup {h} |-> IF g = h THEN r ELSE ca[g]]

cache_get(ca, h) == IF h \in DOMAIN ca THEN ca[h] ELSE None

(***************************************************************************)
(* collections.Counter(xs).most_common(1)[0][0]: the element with the      *)
(* largest count; among equal counts the one first encountered in xs.      *)
(***************************************************************************)
Count(xs, x) == Cardinality({i \in 1..Len(xs) : xs[i] = x})

\* Mutant: among the values of maximal count the one first met last wins.
most_common_last(xs) ==
    LET top == {i \in 1..Len(xs) :
                   \A j \in 1..Len(xs) : Count(xs, xs[i]) >= Count(xs, xs[j])}
        firsts == {i \in top : \A j \in 1..(i - 1) : xs[j] # xs[i]}
        pick == CHOOSE i \in firsts : \A j \in firsts : i >= j
    IN xs[pick]

most_common(xs) ==
    LET top == {i \in 1..Len(xs) :
                   \A j \in 1..Len(xs) : Count(xs, xs[i]) >= Count(xs, xs[j])}
        first == CHOOSE i \in top : \A j \in top : i <= j
    IN xs[first]

(***************************************************************************)
(* chat.py                                                                 *)
(***************************************************************************)
RECURSIVE rebuild(_, _, _, _)
rebuild(queries, idx, ix, ca) ==
    IF idx >= Len(queries) THEN [index |-> ix, cache |-> ca]
    ELSE LET q == queries[idx + 1]
             embedding == pickle_loads(q.embedding)
         IN rebuild(queries, idx + 1, index_add(ix, embedding),
                    cache_set(ca, idx, q.response))

initialize_index_and_cache(d) ==
    rebuild(get_all_queries(d), 0, <<>>, EmptyCache)

\* Mutant: the acceptance test with >= in place of >.
above_T_high_inclusive(sim) == sim >= T_high

\* chat.py:33, the fast-path acceptance test.
above_T_high(sim) == sim > T_high

\* The list comprehension of chat.py:30-34 over one search result.
valid_responses(res, ca) ==
    LET keep == SelectSeq(res, LAMBDA e : above_T_high(e.sim))
    IN [i \in 1..Len(keep) |-> cache_get(ca, keep[i].idx)]

\* chat.py:29-34: the lists valid_responses can be, one for every result
\* index.search may return, that is
\*     {valid_responses(res, ca) : res \in index_search(ix, v, k)}.
\* Entries of equal similarity and equal cached response give the same list
\* whichever of them comes first, so one of them stands for all.
RECURSIVE search_valid_responses(_, _, _, _, _)
search_valid_responses(ix, ca, v, S, k) ==
    IF k = 0 \/ S = {} THEN {<<>>}
    ELSE LET best == {h \in S : \A g \in S : Dot(v, ix[h+1]) >= Dot(v, ix[g+1])}
             reps == {h \in best : \A g \in best :
                         cache_get(ca, g) = cache_get(ca, h) => h <= g}
         IN UNION {{(IF above_T_high(Dot(v, ix[h+1]))
                     THEN <<cache_get(ca, h)>> ELSE <<>>) \o t :
                        t \in search_valid_responses(ix, ca, v, S \ {h}, k - 1)} :
                   h \in reps}

\* Mutant: the scan returns the most similar record above T_low (the first
\* of them among equals) in place of the first one.
best_match(queries, qv, i) ==
    LET sim(j) == Dot(qv, pickle_loads(queries[j].embedding))
        M == {j \in i..Len(queries) : sim(j) > T_low}
    IN IF M = {} THEN 0
       ELSE CHOOSE j \in M : \A m \in M : sim(m) < sim(j) \/ (sim(m) = sim(j) /\ j <= m)

\* chat.py:39-42: for q in all_queries, the first q with similarity > 0.6.
RECURSIVE first_match(_, _, _)
first_match(queries, qv, i) ==
    IF i > Len(queries) THEN 0
    ELSE IF Dot(qv, pickle_loads(queries[i].embedding)) > T_low THEN i
    ELSE first_match(queries, qv, i + 1)

\* Mutant: the scan adds the query vector to the index before it reports
\* a miss.
slow_path_adds_on_miss(qv, ix, ca, d) ==
    LET queries == get_all_queries(d)
        i == first_match(queries, qv, 1)
    IN IF i = 0
       THEN [result |-> None, path |-> "miss", index |-> index_add(ix, qv),
             cache |-> cache_set(ca, ntotal(ix), None)]
       ELSE LET ix2 == index_add(ix, pickle_loads(queries[i].embedding))
                new_index == ntotal(ix2) - 1
            IN [result |-> queries[i].response, path |-> "slow",
                index |-> ix2,
                cache |-> cache_set(ca, new_index, queries[i].response)]

\* chat.py:38-48, the scan of the Durable Store.
slow_path(qv, ix, ca, d) ==
    LET queries == get_all_queries(d)
        i == first_match(queries, qv, 1)
    IN IF i = 0
       THEN [result |-> None, path |-> "miss", index |-> ix, cache |-> ca]
       ELSE LET ix2 == index_add(ix, pickle_loads(queries[i].embedding))
                new_index == ntotal(ix2) - 1
            IN [result |-> queries[i].response, path |-> "slow",
                index |-> ix2,
                cache |-> cache_set(ca, new_index, queries[i].response)]

\* chat.py:35-48 for one list of valid responses: the vote, or the scan.
\* `votes` keeps the list that was voted on (empty when the index is empty
\* or no result is above T_high).
lookup_with(vr, qv, ix, ca, d) ==
    IF Len(vr) > 0
    THEN [result |-> most_common(vr), path |-> "fast",
          index |-> ix, cache |-> ca, votes |-> vr]
    ELSE LET sp == slow_path(qv, ix, ca, d)
         IN [result |-> sp.result, path |-> sp.path,
             index |-> sp.index, cache |-> sp.cache, votes |-> <<>>]

\* The outcomes of get_cached_response(query, index, cache): one for every
\* result faiss may return.
get_cached_response(query, ix, ca, d) ==
    LET query_vector == get_embedding(query)
    IN IF ntotal(ix) > 0
       THEN {lookup_with(vr, query_vector, ix, ca, d) :
                 vr \in search_valid_responses(ix, ca, query_vector,
                                               0..(ntotal(ix) - 1), K)}
       ELSE {lookup_with(<<>>, query_vector, ix, ca, d)}

\* Mutant: the new vector is added to the index, its response is not put
\* in the map.
store_query_index_only(query, response, ix, ca, d) ==
    LET embedding == get_embedding(query)
        up == insert_or_update_query(d, query, embedding, response)
    IN IF up.ret
       THEN [db |-> up.db, index |-> index_add(ix, embedding), cache |-> ca]
       ELSE [db |-> up.db, index |-> ix, cache |-> ca]

\* chat.py:52-57
store_query(query, response, ix, ca, d) ==
    LET embedding == get_embedding(query)
        up == insert_or_update_query(d, query, embedding, response)
    IN IF up.ret
       THEN LET ix2 == index_add(ix, embedding)
            IN [db |-> up.db, index |-> ix2,
                cache |-> cache_set(ca, ntotal(ix2) - 1, response)]
       ELSE [db |-> up.db, index |-> ix, cache |-> ca]

(***************************************************************************)
(* all-code.py, the single-file variant: the same lookup and record over   *)
(* st.session_state, and a generation call that returns a text on failure. *)
(***************************************************************************)
\* all-code.py:234, what ollama_generate returns when the request fails.
ErrorText == "I'm having trouble connecting to the AI model."

get_cached_response_single(query, ix, ca, d) ==
    LET query_vector == get_embedding(query)
    IN IF ntotal(ix) > 0
       THEN {lookup_with(vr, query_vector, ix, ca, d) :
                 vr \in search_valid_responses(ix, ca, query_vector,
                                               0..(ntotal(ix) - 1), K)}
       ELSE {lookup_with(<<>>, query_vector, ix, ca, d)}

store_query_in_db(query, embedding, response, ix, ca, d) ==
    LET up == upsert_rows(d, query, embedding, response)
    IN IF total_changes(d, query) > 0
       THEN LET ix2 == index_add(ix, embedding)
                new_index == ntotal(ix2) - 1
            IN [db |-> up, index |-> ix2,
                cache |-> cache_set(ca, new_index, response)]
       ELSE [db |-> up, index |-> ix, cache |-> ca]

(***************************************************************************)
(* The generation collaborator: a text, or a failure of the request        *)
(* (connection error, timeout, non-2xx status: RequestException).          *)
(***************************************************************************)
GenTexts == Responses \cup {""}

GenOutcomes ==
    {[ok |-> TRUE, text |-> r] : r \in GenTexts} \cup {[ok |-> FALSE, text |-> None]}

\* Python truthiness of `if cached_response:`.
Truthy(x) == x # None /\ x # ""

\* app.py:91-92: the lookup answered (the `if cached_response:` branch).
answered_from_cache(c, d) ==
    [db |-> d, index |-> c.index, cache |-> c.cache,
     cached |-> c.result, path |-> c.path, gen |-> "skipped",
     response |-> c.result]

\* app.py:94-96 and 104-105, the else branch after the lookup outcome c, on
\* the store d as it is when the generation service has answered. A failed
\* generation raises out of the try block: store_query is skipped and the
\* except clause reports the error.
after_generation(prompt, gen, c, d) ==
    IF gen.ok
    THEN LET st == store_query(prompt, gen.text, c.index, c.cache, d)
         IN [db |-> st.db, index |-> st.index, cache |-> st.cache,
             cached |-> c.result, path |-> c.path, gen |-> "ok",
             response |-> gen.text]
    ELSE [db |-> d, index |-> c.index, cache |-> c.cache,
          cached |-> c.result, path |-> c.path, gen |-> "failed",
          response |-> None]

\* app.py:90-105 when no other session writes to the store during the
\* request.
main_chat_interface(prompt, gen, ix, ca, d) ==
    {IF Truthy(c.result) THEN answered_from_cache(c, d)
     ELSE after_generation(prompt, gen, c, d)
     : c \in get_cached_response(prompt, ix, ca, d)}

\* all-code.py:214-234: a failed request is turned into a text.
ollama_generate_single(gen) == IF gen.ok THEN gen.text ELSE ErrorText

\* all-code.py:316-319, the else branch after the lookup outcome c, on the
\* store d as it is when the generation service has answered.
after_generation_single(prompt, gen, c, d) ==
    LET response == ollama_generate_single(gen)
        embedding == get_embedding(prompt)
        st == store_query_in_db(prompt, embedding, response,
                                c.index, c.cache, d)
    IN [db |-> st.db, index |-> st.index, cache |-> st.cache,
        cached |-> c.result, path |-> c.path,
        gen |-> IF gen.ok THEN "ok" ELSE "failed",
        response |-> response]

\* all-code.py:306-328 when no other session writes to the store during the
\* request.
main_chat_interface_single(prompt, gen, ix, ca, d) ==
    {IF Truthy(c.result) THEN answered_from_cache(c, d)
     ELSE after_generation_single(prompt, gen, c, d)
     : c \in get_cached_response_single(prompt, ix, ca, d)}

(***************************************************************************)
(* Failures of the collaborators during one call: the embedding provider   *)
(* (embedder.encode raises) or the Durable Store, either when the          *)
(* connection is opened (get_db_connection: sqlite3.connect raises, the    *)
(* file cannot be opened) or when a statement runs (conn.execute or        *)
(* conn.commit raises: missing table, locked database).                    *)
(***************************************************************************)
Faults == {"none", "embedding", "connect", "statement"}

\* The failures of the store.
StoreFaults == {"connect", "statement"}

\* The call ended by raising an exception to its caller.
Raised == "<raise>"

\* What a call that failed leaves behind: nothing is changed.
Failed(result, ix, ca) ==
    [result |-> result, path |-> "error", index |-> ix, cache |-> ca,
     votes |-> <<>>]

\* chat.py:24-50 under a failure. get_embedding is called first; the store is
\* opened and read (get_all_queries) only when the fast path has no answer.
\* `except Exception as e: raise e` hands every failure to the caller.
get_cached_response_f(query, fault, ix, ca, d) ==
    IF fault = "embedding" THEN {Failed(Raised, ix, ca)}
    ELSE IF fault \in StoreFaults
    THEN {IF o.path = "fast" THEN o ELSE Failed(Raised, ix, ca) :
              o \in get_cached_response(query, ix, ca, d)}
    ELSE get_cached_response(query, ix, ca, d)

\* chat.py:52-57 under a failure: no try block, the exception propagates
\* before the index or the map is touched.
store_query_f(query, response, fault, ix, ca, d) ==
    IF fault # "none"
    THEN [db |-> d, index |-> ix, cache |-> ca, result |-> Raised, path |-> "error"]
    ELSE LET st == store_query(query, response, ix, ca, d)
         IN [db |-> st.db, index |-> st.index, cache |-> st.cache,
             result |-> None, path |-> None]

\* all-code.py:117-149 under a failure. The whole body, get_db_connection()
\* at line 134 included, is inside the try: `except Exception` reports the
\* error on the page and returns None.
get_cached_response_single_f(query, fault, ix, ca, d) ==
    IF fault = "embedding" THEN {Failed(None, ix, ca)}
    ELSE IF fault \in StoreFaults
    THEN {IF o.path = "fast" THEN o ELSE Failed(None, ix, ca) :
              o \in get_cached_response_single(query, ix, ca, d)}
    ELSE get_cached_response_single(query, ix, ca, d)

\* all-code.py:94-115 under a failure of the store (the embedding is an
\* argument). conn = get_db_connection() at line 95 is before the try: a
\* failure to open the store is raised to the caller. A failure of the
\* statement or of the commit is inside the try: `except Exception` reports
\* the error on the page and the function returns as it does after a write.
store_query_in_db_f(query, embedding, response, fault, ix, ca, d) ==
    IF fault = "connect"
    THEN [db |-> d, index |-> ix, cache |-> ca, result |-> Raised, path |-> "error"]
    ELSE IF fault = "statement"
    THEN [db |-> d, index |-> ix, cache |-> ca, result |-> None, path |-> "error"]
    ELSE LET st == store_query_in_db(query, embedding, response, ix, ca, d)
         IN [db |-> st.db, index |-> st.index, cache |-> st.cache,
             result |-> None, path |-> None]

(***************************************************************************)
(* The state machine: one process (one session) over the Durable Store.    *)
(* `last` records the last operation, its arguments and what it returned.  *)
(***************************************************************************)
NoOp == [op |-> "init", query |-> None, response |-> None,
         result |-> None, path |-> None, gen |-> None, votes |-> <<>>]

\* No concurrent callers of record: the one session of index and cache.
NoCallers == <<>>

Init ==
    /\ db = <<>>
    /\ index = initialize_index_and_cache(<<>>).index
    /\ cache = initialize_index_and_cache(<<>>).cache
    /\ last = NoOp
    /\ callers = NoCallers

UsageOf(d, query) ==
    IF RowOf(d, query) = 0 THEN 0 ELSE d[RowOf(d, query)].usage_count

\* The bounds of a step: the index and the usage counters stay small.
Bounded ==
    /\ ntotal(index') <= MaxIndex
    /\ \A i \in 1..Len(db') : db'[i].usage_count <= MaxUsage

\* app.py:19-24: a new process builds its index and cache from the store.
Startup ==
    LET ic == initialize_index_and_cache(db) IN
    /\ index' = ic.index
    /\ cache' = ic.cache
    /\ last' = [NoOp EXCEPT !.op = "startup"]
    /\ UNCHANGED <<db, callers>>

\* lookup: get_cached_response(query, index, cache)
Lookup(query) ==
    /\ \E out \in get_cached_response(query, index, cache, db) :
         /\ index' = out.index
         /\ cache' = out.cache
         /\ last' = [NoOp EXCEPT !.op = "lookup", !.query = query,
                                 !.result = out.result, !.path = out.path,
                                 !.votes = out.votes]
    /\ UNCHANGED <<db, callers>>

\* record: store_query(query, response, index, cache)
Record(query, response) ==
    LET out == store_query(query, response, index, cache, db) IN
    /\ db' = out.db
    /\ index' = out.index
    /\ cache' = out.cache
    /\ last' = [NoOp EXCEPT !.op = "record", !.query = query,
                            !.response = response]
    /\ UNCHANGED callers

\* Another session of the program records an answer: the shared store
\* changes, this session's index and cache do not.
OtherSessionRecord(query, response) ==
    /\ db' = insert_or_update_query(db, query, get_embedding(query), response).db
    /\ last' = [NoOp EXCEPT !.op = "other", !.query = query,
                            !.response = response]
    /\ UNCHANGED <<index, cache, callers>>

\* A request is two steps of its session: the lookup, and, when the lookup
\* did not answer, the rest of the handler once the generation service has
\* answered or failed (requests.post has no timeout). In between the session
\* waits and other sessions may write to the store.
Waiting == last.op = "waiting"

\* The outcome of a finished request.
Submitted(prompt, out) ==
    [NoOp EXCEPT !.op = "submit", !.query = prompt, !.response = out.response,
                 !.result = out.cached, !.path = out.path, !.gen = out.gen]

\* The request is waiting for the generation service after lookup outcome c.
Pending(prompt, c) ==
    [NoOp EXCEPT !.op = "waiting", !.query = prompt,
                 !.result = c.result, !.path = c.path]

\* The lookup outcome the waiting request holds, on the index and the map
\* as they are now.
Held == [result |-> last.result, path |-> last.path,
         index |-> index, cache |-> cache]

\* app.py:90-92: the lookup of a request of the modular program.
SubmitLookup(prompt) ==
    /\ ~Waiting
    /\ \E c \in get_cached_response(prompt, index, cache, db) :
         /\ index' = c.index
         /\ cache' = c.cache
         /\ last' = IF Truthy(c.result)
                    THEN Submitted(prompt, answered_from_cache(c, db))
                    ELSE Pending(prompt, c)
    /\ UNCHANGED <<db, callers>>

\* app.py:94-105: the generation service has answered (or failed).
SubmitAnswer(gen) ==
    /\ Waiting
    /\ LET out == after_generation(last.query, gen, Held, db) IN
         /\ db' = out.db
         /\ index' = out.index
         /\ cache' = out.cache
         /\ last' = Submitted(last.query, out)
    /\ UNCHANGED callers

\* all-code.py:312-314: the lookup of a request of the single-file program.
SubmitSingleLookup(prompt) ==
    /\ ~Waiting
    /\ \E c \in get_cached_response_single(prompt, index, cache, db) :
         /\ index' = c.index
         /\ cache' = c.cache
         /\ last' = IF Truthy(c.result)
                    THEN Submitted(prompt, answered_from_cache(c, db))
                    ELSE Pending(prompt, c)
    /\ UNCHANGED <<db, callers>>

\* all-code.py:316-319: the generation service has answered (or failed).
SubmitSingleAnswer(gen) ==
    /\ Waiting
    /\ LET out == after_generation_single(last.query, gen, Held, db) IN
         /\ db' = out.db
         /\ index' = out.index
         /\ cache' = out.cache
         /\ last' = Submitted(last.query, out)
    /\ UNCHANGED callers

\* Any sequence of startup rebuild, lookup and record in one process, over
\* three texts: t0 and t1 are near (0.90), t0 and t2 are in the band between
\* the thresholds (0.70), t1 and t2 are far apart (0.40).
SpecTexts == {"t0", "t1", "t2"}

Next ==
    \/ Startup /\ Bounded
    \/ \E query \in SpecTexts : Lookup(query) /\ Bounded
    \/ \E query \in SpecTexts, response \in Responses :
           Record(query, response) /\ Bounded

Spec == Init /\ [][Next]_vars

\* The same with a second session writing to the shared store.
SharedTexts == {"t0", "t2"}

NextShared ==
    \/ Startup /\ Bounded
    \/ \E query \in SharedTexts : Lookup(query) /\ Bounded
    \/ \E query \in SharedTexts, response \in Responses :
           Record(query, response) /\ Bounded
    \/ \E query \in SharedTexts, response \in Responses :
           OtherSessionRecord(query, response) /\ Bounded

SpecShared == Init /\ [][NextShared]_vars

\* The request flow of app.py: lookup; on a miss generate, then record.
NextFlow ==
    \/ Startup /\ ~Waiting /\ Bounded
    \/ \E prompt \in Texts : SubmitLookup(prompt) /\ Bounded
    \/ \E gen \in GenOutcomes : SubmitAnswer(gen) /\ Bounded

SpecFlow == Init /\ [][NextFlow]_vars

\* The request flow of all-code.py.
NextSingle ==
    \/ Startup /\ ~Waiting /\ Bounded
    \/ \E prompt \in Texts : SubmitSingleLookup(prompt) /\ Bounded
    \/ \E gen \in GenOutcomes : SubmitSingleAnswer(gen) /\ Bounded

SpecSingle == Init /\ [][NextSingle]_vars

(***************************************************************************)
(* Lookup and record while the embedding provider or the store may fail.   *)
(***************************************************************************)
\* lookup of the modular program under a failure.
LookupF(query, fault) ==
    /\ \E out \in get_cached_response_f(query, fault, index, cache, db) :
         /\ index' = out.index
         /\ cache' = out.cache
         /\ last' = [NoOp EXCEPT !.op = "lookup", !.query = query,
                                 !.result = out.result, !.path = out.path]
    /\ UNCHANGED <<db, callers>>

\* record of the modular program under a failure.
RecordF(query, response, fault) ==
    LET out == store_query_f(query, response, fault, index, cache, db) IN
    /\ db' = out.db
    /\ index' = out.index
    /\ cache' = out.cache
    /\ last' = [NoOp EXCEPT !.op = "record", !.query = query,
                            !.response = response,
                            !.result = out.result, !.path = out.path]
    /\ UNCHANGED callers

\* lookup of the single-file program under a failure.
LookupSingleF(query, fault) ==
    /\ \E out \in get_cached_response_single_f(query, fault, index, cache, db) :
         /\ index' = out.index
         /\ cache' = out.cache
         /\ last' = [NoOp EXCEPT !.op = "lookup", !.query = query,
                                 !.result = out.result, !.path = out.path]
    /\ UNCHANGED <<db, callers>>

\* record of the single-file program under a failure of the store.
RecordSingleF(query, response, fault) ==
    LET out == store_query_in_db_f(query, get_embedding(query), response,
                                   fault, index, cache, db) IN
    /\ db' = out.db
    /\ index' = out.index
    /\ cache' = out.cache
    /\ last' = [NoOp EXCEPT !.op = "record", !.query = query,
                            !.response = response,
                            !.result = out.result, !.path = out.path]
    /\ UNCHANGED callers

NextFaults ==
    \/ \E query \in SpecTexts, fault \in Faults :
           LookupF(query, fault) /\ Bounded
    \/ \E query \in SpecTexts, response \in Responses, fault \in Faults :
           RecordF(query, response, fault) /\ Bounded

SpecFaults == Init /\ [][NextFaults]_vars

NextSingleFaults ==
    \/ \E query \in SpecTexts, fault \in Faults :
           LookupSingleF(query, fault) /\ Bounded
    \/ \E query \in SpecTexts, response \in Responses,
          fault \in {"none"} \cup StoreFaults :
           RecordSingleF(query, response, fault) /\ Bounded

SpecSingleFaults == Init /\ [][NextSingleFaults]_vars

(***************************************************************************)
(* The startup rebuild of the single-file program (all-code.py:56-85): the *)
(* index is filled from one query of the store and the map from a second   *)
(* one, each over its own connection; other sessions commit in between.    *)
(* Both queries have no ORDER BY; sqlite scans the table in id order, as   *)
(* get_all_queries asks for.                                               *)
(***************************************************************************)
\* A new session: st.session_state holds neither 'index' nor 'cache'.
NewSession ==
    /\ last.op = "load_cache"
    /\ index' = <<>>
    /\ cache' = EmptyCache
    /\ last' = [NoOp EXCEPT !.op = "new_session"]
    /\ UNCHANGED <<db, callers>>

\* all-code.py:60-72: SELECT embedding FROM queries, index.add of each row.
LoadIndexSingle ==
    /\ last.op \in {"init", "new_session"}
    /\ index' = [i \in 1..Len(db) |-> pickle_loads(db[i].embedding)]
    /\ last' = [NoOp EXCEPT !.op = "load_index"]
    /\ UNCHANGED <<db, cache, callers>>

\* all-code.py:74-85: SELECT query, response FROM queries,
\* cache[idx] = row['response'] for idx, row in enumerate(rows).
LoadCacheSingle ==
    /\ last.op = "load_index"
    /\ cache' = [h \in 0..(Len(db) - 1) |-> db[h + 1].response]
    /\ last' = [NoOp EXCEPT !.op = "load_cache"]
    /\ UNCHANGED <<db, index, callers>>

\* Another session commits a record; this session's position in its startup
\* is untouched.
OtherSessionCommit(query, response) ==
    /\ db' = insert_or_update_query(db, query, get_embedding(query), response).db
    /\ UNCHANGED <<index, cache, last, callers>>

NextSingleStartup ==
    \/ NewSession
    \/ LoadIndexSingle /\ Bounded
    \/ LoadCacheSingle
    \/ \E query \in SpecTexts, response \in Responses :
           OtherSessionCommit(query, response) /\ Bounded

SpecSingleStartup == Init /\ [][NextSingleStartup]_vars

\* The request flows with other sessions committing records at any time,
\* also while a request waits for the generation service.
NextFlowShared ==
    \/ Startup /\ ~Waiting /\ Bounded
    \/ \E prompt \in SharedTexts : SubmitLookup(prompt) /\ Bounded
    \/ \E gen \in GenOutcomes : SubmitAnswer(gen) /\ Bounded
    \/ \E query \in SharedTexts, response \in Responses :
           OtherSessionCommit(query, response) /\ Bounded

SpecFlowShared == Init /\ [][NextFlowShared]_vars

NextSingleShared ==
    \/ Startup /\ ~Waiting /\ Bounded
    \/ \E prompt \in SharedTexts : SubmitSingleLookup(prompt) /\ Bounded
    \/ \E gen \in GenOutcomes : SubmitSingleAnswer(gen) /\ Bounded
    \/ \E query \in SharedTexts, response \in Responses :
           OtherSessionCommit(query, response) /\ Bounded

SpecSingleShared == Init /\ [][NextSingleShared]_vars

(***************************************************************************)
(* Concurrent callers of record. Each caller is a session with its own     *)
(* index and map over the shared store; a call is the three steps of       *)
(* store_query: compute the embedding, run the upsert, append to the own   *)
(* index and map. The upsert is one SQL statement followed by commit:      *)
(* sqlite runs it under the write lock of the database file, so it reads   *)
(* and writes the row as one step on the store as it is at that moment.    *)
(***************************************************************************)
NumCallers == 2

CallerIds == 1..NumCallers

ConcTexts == {"t0", "t1"}

Idle == [pc |-> "idle", query |-> None, response |-> None, seen |-> <<>>,
         ret |-> FALSE, index |-> <<>>, cache |-> EmptyCache]

\* A read-modify-write in two steps: the row is computed from the store as
\* the caller saw it when its call began, and written over the row of now.
write_from_snapshot(now, seen, query, embedding, response) ==
    LET w   == insert_or_update_query(seen, query, embedding, response)
        row == w.db[RowOf(w.db, query)]
    IN [db  |-> IF RowOf(now, query) = 0 THEN Append(now, row)
                ELSE [now EXCEPT ![RowOf(now, query)] = row],
        ret |-> w.ret]

\* database.py:47-60 called while other callers run: `seen` is the store when
\* the call began, `now` the store when the statement runs. The statement
\* works on `now`.
insert_or_update_query_at(now, seen, query, embedding, response) ==
    insert_or_update_query(now, query, embedding, response)

InitCallers ==
    /\ db = <<>>
    /\ index = <<>>
    /\ cache = EmptyCache
    /\ last = NoOp
    /\ callers = [c \in CallerIds |-> Idle]

\* chat.py:53: the call begins, embedding = get_embedding(query).
BeginRecord(c, query, response) ==
    /\ callers[c].pc = "idle"
    /\ callers' = [callers EXCEPT ![c] = [@ EXCEPT !.pc = "embedded",
                                                   !.query = query,
                                                   !.response = response,
                                                   !.seen = db]]
    /\ UNCHANGED <<db, index, cache, last>>

\* chat.py:55: insert_or_update_query(query, embedding, response).
CommitRecord(c) ==
    LET me == callers[c]
        w  == insert_or_update_query_at(db, me.seen, me.query,
                                        get_embedding(me.query), me.response)
    IN /\ me.pc = "embedded"
       /\ db' = w.db
       /\ callers' = [callers EXCEPT ![c] = [@ EXCEPT !.pc = "committed",
                                                      !.ret = w.ret]]
       /\ UNCHANGED <<index, cache, last>>

\* chat.py:55-57: if the upsert returned True, index.add(embedding) and
\* cache[index.ntotal - 1] = response on the caller's own index and map.
FinishRecord(c) ==
    LET me == callers[c]
        ix == index_add(me.index, get_embedding(me.query))
    IN /\ me.pc = "committed"
       /\ callers' = [callers EXCEPT ![c] =
              IF me.ret
              THEN [@ EXCEPT !.pc = "done", !.index = ix,
                             !.cache = cache_set(me.cache, ntotal(ix) - 1,
                                                 me.response)]
              ELSE [@ EXCEPT !.pc = "done"]]
       /\ UNCHANGED <<db, index, cache, last>>

NextCallers ==
    \/ \E c \in CallerIds, query \in ConcTexts, response \in Responses :
           BeginRecord(c, query, response)
    \/ \E c \in CallerIds : CommitRecord(c)
    \/ \E c \in CallerIds : FinishRecord(c)

SpecCallers == InitCallers /\ [][NextCallers]_vars

(***************************************************************************)
(* chatbot.py, a third program over the same queries table. Its session    *)
(* starts with an empty index and map (no rebuild from the store), its     *)
(* lookup has one path, a vote among the entries above 0.60, and writes    *)
(* the hit to the store; its upsert leaves the response of an existing     *)
(* text as it is.                                                          *)
(***************************************************************************)
T_chatbot == 12

\* chatbot.py:151-191: what generate_response returns with success False.
ErrorTextChatbot == "API Error"

\* chatbot.py:71-75: INSERT ... ON CONFLICT(query) DO UPDATE SET
\* usage_count = usage_count + 1
upsert_rows_chatbot(d, query, embedding, response) ==
    LET i == RowOf(d, query) IN
    IF i = 0
    THEN Append(d, [query |-> query,
                    embedding |-> pickle_dumps(embedding),
                    response |-> response,
                    usage_count |-> 1])
    ELSE [d EXCEPT ![i].usage_count = d[i].usage_count + 1]

\* chatbot.py:68-80. `locked` says that another connection holds the write
\* lock of the database file: the statement then raises "database is
\* locked", `except Exception` reports it on the page and nothing is
\* written.
store_query_chatbot(query, embedding, response, d, locked) ==
    IF locked THEN d ELSE upsert_rows_chatbot(d, query, embedding, response)

\* chatbot.py:88-94: the lists valid_responses can be, one for every result
\* index.search may return; the entries kept are those above 0.60.
RECURSIVE search_valid_responses_chatbot(_, _, _, _, _)
search_valid_responses_chatbot(ix, ca, v, S, k) ==
    IF k = 0 \/ S = {} THEN {<<>>}
    ELSE LET best == {h \in S : \A g \in S : Dot(v, ix[h+1]) >= Dot(v, ix[g+1])}
             reps == {h \in best : \A g \in best :
                         cache_get(ca, g) = cache_get(ca, h) => h <= g}
         IN UNION {{(IF Dot(v, ix[h+1]) > T_chatbot
                     THEN <<cache_get(ca, h)>> ELSE <<>>) \o t :
                        t \in search_valid_responses_chatbot(ix, ca, v,
                                                             S \ {h}, k - 1)} :
                   h \in reps}

\* chatbot.py:82-105. The index and the map are read only; a hit is written
\* to the store under the text of the query.
get_cached_response_chatbot(query, ix, ca, d, locked) ==
    LET query_vector == get_embedding(query)
        miss == [result |-> None, path |-> "miss", db |-> d]
    IN IF ntotal(ix) = 0 THEN {miss}
       ELSE {IF Len(vr) = 0 THEN miss
             ELSE [result |-> most_common(vr), path |-> "fast",
                   db |-> store_query_chatbot(query, query_vector,
                                              most_common(vr), d, locked)] :
                 vr \in search_valid_responses_chatbot(ix, ca, query_vector,
                                                       0..(ntotal(ix) - 1), K)}

\* chatbot.py:278-309. The handler inserts the user's message over its own
\* connection (line 284) and commits at line 306: in between it holds the
\* write lock of the database file, so the store_query calls it makes, over
\* a second connection, find the database locked. generate_response returns
\* (text, success); on success the vector and the response are put in the
\* index and the map before store_query is called.
main_interface_chatbot(prompt, gen, ix, ca, d) ==
    {IF Truthy(c.result)
     THEN [db |-> c.db, index |-> ix, cache |-> ca,
           cached |-> c.result, path |-> c.path, gen |-> "skipped",
           response |-> c.result]
     ELSE IF gen.ok
     THEN LET embedding == get_embedding(prompt)
              ix2 == index_add(ix, embedding)
          IN [db |-> store_query_chatbot(prompt, embedding, gen.text, c.db, TRUE),
              index |-> ix2,
              cache |-> cache_set(ca, ntotal(ix2) - 1, gen.text),
              cached |-> c.result, path |-> c.path, gen |-> "ok",
              response |-> gen.text]
     ELSE [db |-> c.db, index |-> ix, cache |-> ca,
           cached |-> c.result, path |-> c.path, gen |-> "failed",
           response |-> ErrorTextChatbot]
     : c \in get_cached_response_chatbot(prompt, ix, ca, d, TRUE)}

\* chatbot.py:54-65: a new session, index and map empty whatever the store
\* holds.
NewSessionChatbot ==
    /\ index' = <<>>
    /\ cache' = EmptyCache
    /\ last' = [NoOp EXCEPT !.op = "new_session"]
    /\ UNCHANGED <<db, callers>>

\* get_cached_response(query) of chatbot.py called on its own.
LookupChatbot(query) ==
    /\ \E out \in get_cached_response_chatbot(query, index, cache, db, FALSE) :
         /\ db' = out.db
         /\ last' = [NoOp EXCEPT !.op = "lookup", !.query = query,
                                 !.result = out.result, !.path = out.path]
    /\ UNCHANGED <<index, cache, callers>>

\* store_query(query, embedding, response) of chatbot.py called on its own.
RecordChatbot(query, response) ==
    /\ db' = store_query_chatbot(query, get_embedding(query), response, db, FALSE)
    /\ last' = [NoOp EXCEPT !.op = "record", !.query = query,
                            !.response = response]
    /\ UNCHANGED <<index, cache, callers>>

\* One request of chatbot.py. It is one step on the store: the handler
\* holds the write lock from its first statement to its commit, the wait
\* for the generation service (timeout 30 s) included.
SubmitChatbot(prompt, gen) ==
    /\ \E out \in main_interface_chatbot(prompt, gen, index, cache, db) :
         /\ db' = out.db
         /\ index' = out.index
         /\ cache' = out.cache
         /\ last' = Submitted(prompt, out)
    /\ UNCHANGED callers

NextChatbot ==
    \/ NewSessionChatbot
    \/ \E query \in SharedTexts : LookupChatbot(query) /\ Bounded
    \/ \E query \in SharedTexts, response \in Responses :
           RecordChatbot(query, response) /\ Bounded
    \/ \E prompt \in SharedTexts, gen \in GenOutcomes :
           SubmitChatbot(prompt, gen) /\ Bounded

SpecChatbot == Init /\ [][NextChatbot]_vars

(***************************************************************************)
(* The fast-path vote over larger indexes. The initial states are the      *)
(* states reached from the empty store by recording a list of answers,     *)
(* one list per multiset of (text, response) answers of at most            *)
(* MaxEntries; the steps are lookups.                                      *)
(***************************************************************************)
MaxEntries == 6

TextSeq == <<"t0", "t1", "t2", "t3">>
RespSeq == <<"A", "B">>

NumKinds == Len(TextSeq) * Len(RespSeq)

KindOf(k) == [query    |-> TextSeq[((k - 1) \div Len(RespSeq)) + 1],
              response |-> RespSeq[((k - 1) % Len(RespSeq)) + 1]]

RECURSIVE AnswerLists(_, _)
AnswerLists(n, from) ==
    IF n = 0 THEN {<<>>}
    ELSE UNION {{<<k>> \o t : t \in AnswerLists(n - 1, k)} : k \in from..NumKinds}

RECURSIVE replay(_, _)
replay(answers, st) ==
    IF answers = <<>> THEN st
    ELSE LET a == KindOf(Head(answers))
         IN replay(Tail(answers),
                   store_query(a.query, a.response, st.index, st.cache, st.db))

InitVote ==
    \E n \in 0..MaxEntries : \E answers \in AnswerLists(n, 1) :
        LET st == replay(answers, [db |-> <<>>, index |-> <<>>, cache |-> EmptyCache])
        IN /\ db = st.db
           /\ index = st.index
           /\ cache = st.cache
           /\ last = NoOp
           /\ callers = NoCallers

NextVote ==
    \E query \in Texts : Lookup(query) /\ ntotal(index') <= MaxEntries

SpecVote == InitVote /\ [][NextVote]_vars

(***************************************************************************)
(* The scan of the store by a session that started on the empty store      *)
(* while other sessions committed records: the initial states are the      *)
(* stores reached by every list of at most MaxRecords commits, in every    *)
(* order, with the index and the map of this session still empty; the      *)
(* steps are lookups and restarts of this session.                         *)
(***************************************************************************)
MaxRecords == 3

RECURSIVE CommitLists(_)
CommitLists(n) ==
    IF n = 0 THEN {<<>>}
    ELSE {<<k>> \o t : k \in 1..NumKinds, t \in CommitLists(n - 1)}

RECURSIVE commit_all(_, _)
commit_all(answers, d) ==
    IF answers = <<>> THEN d
    ELSE LET a == KindOf(Head(answers))
         IN commit_all(Tail(answers),
                       insert_or_update_query(d, a.query, get_embedding(a.query),
                                              a.response).db)

InitScan ==
    \E n \in 0..MaxRecords : \E answers \in CommitLists(n) :
        /\ db = commit_all(answers, <<>>)
        /\ \A i \in 1..Len(db) : db[i].usage_count <= MaxUsage
        /\ index = initialize_index_and_cache(<<>>).index
        /\ cache = initialize_index_and_cache(<<>>).cache
        /\ last = NoOp
        /\ callers = NoCallers

NextScan ==
    \/ Startup /\ Bounded
    \/ \E query \in Texts : Lookup(query) /\ Bounded

SpecScan == InitScan /\ [][NextScan]_vars

(***************************************************************************)
(* Claims.                                                                 *)
(***************************************************************************)
\* The lists of search_valid_responses are the lists the comprehension
\* gives over the results of index_search.
SearchListsAgree ==
    \A q \in Texts :
        search_valid_responses(index, cache, get_embedding(q),
                               0..(ntotal(index) - 1), K)
        = {valid_responses(res, cache) :
               res \in index_search(index, get_embedding(q), K)}

Handles(ix) == 0..(ntotal(ix) - 1)

\* C1. Lockstep: after any sequence of startup rebuild, lookup and record
\* the handles of the Response Cache Map are exactly 0 .. index.size - 1.
C1_Lockstep == DOMAIN cache = Handles(index)

\* C1 witness: the index has grown by records and by a slow-path hit.
C1_Witness ==
    /\ last.op = "lookup" /\ last.path = "slow"
    /\ ntotal(index) = 3 /\ Len(db) = 1
    /\ DOMAIN cache = {0, 1, 2}

\* C2 (as claimed). After record(q, embed(q), r) the next lookup(q) returns r
\* by the fast path. Read in favour of the code: for some order faiss may
\* return.
C2_ExactDuplicateHit ==
    last.op = "record" =>
        \E out \in get_cached_response(last.query, index, cache, db) :
            out.result = last.response /\ out.path = "fast"

RowsOf(d, query) == {i \in 1..Len(d) : d[i].query = query}

Embeddings == {get_embedding(t) : t \in Texts}

\* C3. Idempotent upsert: record(q, e, r) twice with the same arguments leaves
\* exactly one QueryRecord for q, usage_count one higher after each call (1 and
\* 2 for a new text), response r, and the embedding of the first call (or of
\* the record that existed) untouched; the same through store_query.
C3_IdempotentUpsert ==
    \A q \in Texts, r \in Responses :
        /\ \A e \in Embeddings :
             LET d1 == insert_or_update_query(db, q, e, r).db
                 d2 == insert_or_update_query(d1, q, e, r).db
                 kept == IF RowOf(db, q) = 0 THEN pickle_dumps(e)
                         ELSE db[RowOf(db, q)].embedding
             IN /\ Cardinality(RowsOf(d1, q)) = 1
                /\ Cardinality(RowsOf(d2, q)) = 1
                /\ UsageOf(d1, q) = UsageOf(db, q) + 1
                /\ UsageOf(d2, q) = UsageOf(db, q) + 2
                /\ d1[RowOf(d1, q)].response = r
                /\ d2[RowOf(d2, q)].response = r
                /\ d1[RowOf(d1, q)].embedding = kept
                /\ d2[RowOf(d2, q)].embedding = kept
                /\ Len(d2) = Len(d1)
                /\ \A t \in Texts \ {q} :
                       /\ RowsOf(d2, t) = RowsOf(db, t)
                       /\ \A i \in RowsOf(db, t) : d2[i] = db[i]
        /\ LET s1 == store_query(q, r, index, cache, db)
               s2 == store_query(q, r, s1.index, s1.cache, s1.db)
           IN /\ Cardinality(RowsOf(s2.db, q)) = 1
              /\ UsageOf(s1.db, q) = UsageOf(db, q) + 1
              /\ UsageOf(s2.db, q) = UsageOf(db, q) + 2
              /\ s2.db[RowOf(s2.db, q)].response = r

\* C3 witness: the same text has been recorded twice, with the same response.
C3_Witness ==
    /\ last.op = "record"
    /\ UsageOf(db, last.query) = 2
    /\ db[RowOf(db, last.query)].response = last.response
    /\ \E h, g \in Handles(index) :
           /\ h # g
           /\ index[h + 1] = get_embedding(last.query)
           /\ index[g + 1] = get_embedding(last.query)
           /\ cache[h] = last.response /\ cache[g] = last.response

\* C4 (as claimed). upsert reports was_new = true exactly for a text that is
\* new to the store, and a record of an already stored text leaves the size
\* of the index and of the map unchanged.
C4_WasNewOnlyForNewText ==
    [][last'.op = "record" =>
          LET q == last'.query
              up == insert_or_update_query(db, q, get_embedding(q), last'.response)
          IN /\ up.ret = (RowOf(db, q) = 0)
             /\ RowOf(db, q) # 0 =>
                    /\ ntotal(index') = ntotal(index)
                    /\ DOMAIN cache' = DOMAIN cache]_vars

\* C5 (as claimed). With a record in the store and an empty index, a
\* lookup(q') with similarity in [T_low, T_high] to the stored embedding that
\* hits by the slow path is followed by an identical lookup that hits by the
\* fast path (for some result faiss may return).
C5_SelfHealing ==
    (/\ last.op = "lookup" /\ last.path = "slow"
     /\ ntotal(index) = 1
     /\ Dot(get_embedding(last.query), index[1]) >= T_low
     /\ Dot(get_embedding(last.query), index[1]) <= T_high)
    => \E out \in get_cached_response(last.query, index, cache, db) :
           out.path = "fast" /\ out.result = last.result

\* C6. A lookup on an empty store and empty index misses, and a lookup that
\* misses leaves the index, the map and the store as they were.
C6_MissHasNoSideEffect ==
    [][last'.op = "lookup" =>
          /\ (db = <<>> /\ index = <<>>) => last'.result = None
          /\ last'.result = None =>
                 /\ index' = index
                 /\ cache' = cache
                 /\ db' = db]_vars

\* C6 witness: a miss against a store and an index that hold entries.
C6_Witness ==
    /\ last.op = "lookup" /\ last.result = None /\ last.path = "miss"
    /\ Len(db) > 0 /\ ntotal(index) > 0

\* The index and the map as they were before the lookup `last` describes: a
\* slow-path hit appended one entry, a fast-path hit or a miss none.
IndexBefore ==
    IF last.path = "slow" THEN SubSeq(index, 1, Len(index) - 1) ELSE index

Min(a, b) == IF a < b THEN a ELSE b

\* The sets of handles that are the (at most K) nearest entries to v.
Nearest(ix, v) ==
    {S \in SUBSET Handles(ix) :
        /\ Cardinality(S) = Min(K, ntotal(ix))
        /\ \A h \in S, g \in Handles(ix) \ S :
               Dot(v, ix[h + 1]) >= Dot(v, ix[g + 1])}

Votes(S, r) == Cardinality({h \in S : cache[h] = r})

\* C7. Fast-path vote: when one of the (at most 5) nearest entries has a
\* similarity strictly above T_high, lookup answers by the fast path with a
\* response whose count among exactly those of the nearest entries that are
\* strictly above T_high is maximal; entries at exactly T_high do not vote.
\* When no entry is above T_high the fast path does not answer.
C7_FastPathVote ==
    last.op = "lookup" =>
        LET v == get_embedding(last.query)
            ix == IndexBefore
            above == {h \in Handles(ix) : Dot(v, ix[h + 1]) > T_high}
        IN IF above = {}
           THEN last.path # "fast"
           ELSE /\ last.path = "fast"
                /\ \E S \in Nearest(ix, v) :
                       LET voters == S \cap above
                       IN /\ Votes(voters, last.result) >= 1
                          /\ \A h \in voters :
                                 Votes(voters, last.result) >= Votes(voters, cache[h])

\* C7 witness: a vote among more than K entries that is not unanimous, in
\* which the entries at exactly T_high would have changed the winner.
C7_Witness ==
    /\ last.op = "lookup" /\ last.path = "fast"
    /\ ntotal(index) > K
    /\ LET v == get_embedding(last.query)
           above == {h \in Handles(index) : Dot(v, index[h + 1]) > T_high}
           at == {h \in Handles(index) : Dot(v, index[h + 1]) = T_high}
       IN /\ \E h \in above : cache[h] # last.result
          /\ \E r \in Responses :
                 /\ r # last.result
                 /\ Votes(above, r) < Votes(above, last.result)
                 /\ Votes(above \cup at, r) > Votes(above \cup at, last.result)

Results(query, ix, ca, d) ==
    {out.result : out \in get_cached_response(query, ix, ca, d)}

\* C8 (as claimed). Rebuild fidelity: lookup(q) answers the same just before
\* a restart and just after it, when the index and the map have been rebuilt
\* from the store. Read in favour of the code: some result faiss may return
\* before the restart is a result it may return after it.
C8_RebuildFidelity ==
    \A q \in Texts :
        LET ic == initialize_index_and_cache(db)
        IN Results(q, index, cache, db) \cap Results(q, ic.index, ic.cache, db) # {}

\* C9 (as claimed). In the request flow every submission of a text that
\* equals the text of an existing QueryRecord adds one to its usage_count.
C9_UsageCountsResubmissions ==
    [][(last'.op = "submit" /\ RowOf(db, last'.query) # 0) =>
          UsageOf(db', last'.query) = UsageOf(db, last'.query) + 1]_vars

\* C10 (as claimed). A request whose generation fails does not call record:
\* the store, the index and the map are as the lookup of the request left
\* them, and no error text becomes a cached response.
C10_NoCachingOfFailedGeneration ==
    [][(last'.op = "submit" /\ last'.gen = "failed") =>
          /\ db' = db
          /\ \A h \in DOMAIN cache' : cache'[h] # ErrorText
          /\ \A i \in 1..Len(db') : db'[i].response # ErrorText]_vars

\* C11 (as claimed). Errors are never reported as a miss: a lookup or a record
\* during which the embedding provider or the store fails ends by raising to
\* its caller; it does not return as a miss or as a write does.
C11_ErrorsAreNotAMiss ==
    last.path = "error" => last.result = Raised

\* The index and the map hold the handles 0..n-1, and the vector and the
\* response of handle i are those of the i-th record of the store.
Aligned(ix, ca, d) ==
    /\ DOMAIN ca = Handles(ix)
    /\ ntotal(ix) <= Len(d)
    /\ \A h \in Handles(ix) :
          /\ ix[h + 1] = pickle_loads(d[h + 1].embedding)
          /\ ca[h] = d[h + 1].response

\* C12 (as claimed). Startup rebuild alignment: when the startup rebuild
\* finishes, the index and the map hold the same handles and handle i has the
\* vector and the response of the i-th record, also when another session
\* commits a record while the rebuild is in progress.
C12_StartupRebuildAlignment ==
    [][(last'.op = "load_cache" /\ last.op = "load_index") =>
          Aligned(index', cache', db')]_vars

\* The same for the rebuild of the modular program, which reads the store
\* once.
StartupAligned ==
    [][last'.op = "startup" => Aligned(index', cache', db')]_vars

\* The callers whose upsert of `query` has run.
Committed(query) ==
    {c \in CallerIds : /\ callers[c].pc \in {"committed", "done"}
                       /\ callers[c].query = query}

\* C13. No lost updates: in every interleaving of n callers of record for one
\* text the store holds exactly one QueryRecord for the text once the first
\* upsert has run, its usage_count is the number of upserts that have run (n
\* when all have), and its response is the response of one of these callers.
C13_NoLostUpdates ==
    \A q \in ConcTexts :
        IF Committed(q) = {} THEN RowsOf(db, q) = {}
        ELSE /\ Cardinality(RowsOf(db, q)) = 1
             /\ UsageOf(db, q) = Cardinality(Committed(q))
             /\ db[RowOf(db, q)].response
                    \in {callers[c].response : c \in Committed(q)}
             /\ db[RowOf(db, q)].embedding = pickle_dumps(get_embedding(q))

\* C13 witness: every caller has recorded "t0", each began before any upsert
\* had run (all saw the empty store), two of them with different responses.
C13_Witness ==
    /\ \A c \in CallerIds : /\ callers[c].pc = "done"
                            /\ callers[c].query = "t0"
                            /\ callers[c].seen = <<>>
    /\ \E c, e \in CallerIds : callers[c].response # callers[e].response
    /\ UsageOf(db, "t0") = NumCallers

\* The records of the store whose similarity to v is strictly above T_low.
Matching(v) ==
    {i \in 1..Len(db) : Dot(v, pickle_loads(db[i].embedding)) > T_low}

\* C14. Slow-path first match: a lookup that the fast path does not answer
\* returns the response of the first QueryRecord, in insertion order, whose
\* similarity to the query is strictly above T_low, whatever the similarity
\* of later records, and appends that record to the index and the map; it
\* returns a miss only if no QueryRecord is above T_low.
C14_SlowPathFirstMatch ==
    (last.op = "lookup" /\ last.path # "fast") =>
        LET M == Matching(get_embedding(last.query))
        IN IF M = {}
           THEN last.path = "miss" /\ last.result = None
           ELSE \E i \in M :
                    /\ \A j \in M : i <= j
                    /\ last.path = "slow"
                    /\ last.result = db[i].response
                    /\ index[Len(index)] = pickle_loads(db[i].embedding)
                    /\ cache[Len(index) - 1] = db[i].response

\* C14 witness: the slow path returned the response of the first matching
\* record although a later record has the text of the query (similarity 1)
\* and another response.
C14_Witness ==
    /\ last.op = "lookup"
    /\ last.path = "slow"
    /\ \E i, j \in Matching(get_embedding(last.query)) :
           /\ i < j
           /\ last.result = db[i].response
           /\ db[j].query = last.query
           /\ db[j].response # last.result
           /\ Dot(get_embedding(last.query), pickle_loads(db[i].embedding))
                  < Dot(get_embedding(last.query), pickle_loads(db[j].embedding))

\* C15 (as claimed). Bounded volatile growth: every QueryRecord is represented
\* by at most one index entry, and the index never holds more entries than
\* the store holds QueryRecords.
C15_BoundedVolatileGrowth ==
    /\ ntotal(index) <= Len(db)
    /\ \A i \in 1..Len(db) :
           Cardinality({h \in Handles(index) :
                           index[h + 1] = pickle_loads(db[i].embedding)}) <= 1

\* C16 (as claimed). In the request flow (lookup; on a miss generate, then
\* record) of one session no two distinct QueryRecords have embeddings whose
\* similarity is above T_low: a text that near to an existing record is
\* answered from the cache and not recorded.
C16_StoredQueriesMutuallyDissimilar ==
    \A i, j \in 1..Len(db) :
        i # j => Dot(pickle_loads(db[i].embedding),
                     pickle_loads(db[j].embedding)) <= T_low

\* The similarity of index entry h to the query of the lookup `last`
\* describes.
SimTo(h) == Dot(get_embedding(last.query), index[h + 1])

\* The index entries strictly above T_high for that query.
Above == {h \in Handles(index) : SimTo(h) > T_high}

\* The list vr is the responses of the handles in `voters` in some order of
\* descending similarity: the positions of every level of similarity hold
\* the responses of the voters of that level, each as often as it occurs.
InSearchOrder(vr, voters) ==
    /\ Len(vr) = Cardinality(voters)
    /\ \A h \in voters :
           LET start == Cardinality({g \in voters : SimTo(g) > SimTo(h)})
               level == {g \in voters : SimTo(g) = SimTo(h)}
           IN Cardinality({i \in (start + 1)..(start + Cardinality(level)) :
                              vr[i] = cache[h]})
              = Cardinality({g \in level : cache[g] = cache[h]})

\* The position at which x comes first in xs.
FirstPos(xs, x) ==
    CHOOSE i \in 1..Len(xs) : xs[i] = x /\ \A j \in 1..(i - 1) : xs[j] # x

\* The lookup returned a response of highest count in the list it voted on,
\* and of the responses of highest count the one that comes first in it.
FirstOfTheTied ==
    /\ \E S \in Nearest(index, get_embedding(last.query)) :
           InSearchOrder(last.votes, S \cap Above)
    /\ \E i \in 1..Len(last.votes) : last.votes[i] = last.result
    /\ \A i \in 1..Len(last.votes) :
           /\ Count(last.votes, last.votes[i]) <= Count(last.votes, last.result)
           /\ Count(last.votes, last.votes[i]) = Count(last.votes, last.result)
                  => FirstPos(last.votes, last.result) <= i

\* Every fast-path answer the lookup can give in this state is the one it
\* gave (a fast-path hit changes neither index nor map nor store).
SameAnswerWhateverTheSearchOrder ==
    \A out \in get_cached_response(last.query, index, cache, db) :
        out.result = last.result

====
